---- MODULE Spec2Model ----
(***************************************************************************)
(* A model of the memory_arena crate: the bump allocator Arena             *)
(* (src/src/arena.rs), the backing-store functions (src/src/alloc.rs) and  *)
(* the owning handle ArenaBox (src/src/arena_box.rs, src/src/unique.rs).   *)
(*                                                                         *)
(* Addresses are machine words of W bits.  A memory cell ("byte") holds a  *)
(* number below ByteBase, or Uninit when nothing was ever written to it.   *)
(***************************************************************************)
EXTENDS Integers, Sequences, FiniteSets, TLC

(* ------------------------------ bounds -------------------------------- *)

\* width of usize, in bits
W == 6
\* largest size passed to Arena::new
MaxSize == 4
\* largest alignment passed to Arena::new
MaxAlign == 4
\* number of values placed in the arena
MaxBoxes == 2

(* --------------------------- program constants ------------------------ *)

\* `mem: 1 as *mut u8`, the base of an arena constructed with size 0
PlaceholderMem == 1

WordMod == 2 ^ W
ByteBase == 2 ^ W
Uninit == ByteBase

(* ------------------------- machine arithmetic ------------------------- *)

Wrap(x) == x % WordMod

RECURSIVE count_ones(_)
count_ones(n) == IF n = 0 THEN 0 ELSE (n % 2) + count_ones(n \div 2)

RECURSIVE BitAnd(_, _)
BitAnd(a, b) ==
    IF a = 0 \/ b = 0 THEN 0
    ELSE (a % 2) * (b % 2) + 2 * BitAnd(a \div 2, b \div 2)

BitNot(x) == (WordMod - 1) - x

\* the integer values placed or written through a handle
IntVals == {0, 1}
\* the items of the list nodes placed
Items == {1}

(* ------------------------------- types -------------------------------- *)
(* The types T that new_box is instantiated with: size_of, align_of and   *)
(* whether T has drop glue.  "zst4" is a zero-sized type of alignment 4   *)
(* ([u32; 0]); "node" is the List enum of the examples: an item and an    *)
(* ArenaBox to the next node, Nil being the null pointer.                 *)

TypeNames == {"zst4", "u8", "u32", "node"}

size_of(t) ==
    CASE t = "zst4" -> 0
      [] t = "u8"   -> 1
      [] t = "u32"  -> 4
      [] t = "node" -> 2

align_of(t) ==
    CASE t = "zst4" -> 4
      [] t = "u8"   -> 1
      [] t = "u32"  -> 4
      [] t = "node" -> 2

needs_drop(t) == t = "node"

Nil == [tag |-> "Nil"]
Cons(item, next) == [tag |-> "Cons", item |-> item, next |-> next]

\* the bytes of a value of type t, least significant first
Encode(t, v) ==
    IF t = "node"
    THEN IF v.tag = "Nil" THEN <<Uninit, 0>> ELSE <<v.item, v.next>>
    ELSE [i \in 1..size_of(t) |-> (v \div (ByteBase ^ (i - 1))) % ByteBase]

RECURSIVE IntOf(_, _)
IntOf(cells, n) ==
    IF n = 0 THEN 0
    ELSE IntOf(cells, n - 1) + cells[n] * (ByteBase ^ (n - 1))

\* the value of type t that the bytes `cells` hold
Decode(t, cells) ==
    IF t = "node"
    THEN IF cells[2] = 0 THEN Nil ELSE Cons(cells[1], cells[2])
    ELSE IntOf(cells, size_of(t))

(* ------------------------------- state -------------------------------- *)

VARIABLES
    st,            \* "init", "live", "torn", "err", "panic", "fault"
    ctor,          \* the call Arena::new(size, alignment) and its outcome
    size,          \* Arena.size
    used,          \* Arena.used
    mem,           \* Arena.mem
    heap,          \* the bytes of the backing block, by address
    boxes,         \* the values placed so far and the state of their handles
    ret,           \* the latest new_box call and what it returned
    provider,      \* the backing-store provider: blocks out, calls made,
                   \* the error number its last allocation returned
    garbageDrops   \* addresses where drop_in_place ran on bytes never written

vars == <<st, ctor, size, used, mem, heap, boxes, ret, provider, garbageDrops>>

NoCall == [op |-> "none"]

Init ==
    /\ st = "init"
    /\ ctor = NoCall
    /\ size = 0
    /\ used = 0
    /\ mem = 0
    /\ heap = <<>>
    /\ boxes = <<>>
    /\ ret = NoCall
    /\ provider = [blocks |-> {}, allocCalls |-> 0, errno |-> 0,
                   freeLog |-> <<>>]
    /\ garbageDrops = {}

(* ------------------------ backing-store provider ---------------------- *)

\* the error codes posix_memalign may return
Errnos == {12, 22}

\* the blocks posix_memalign may return for (alignment, size)
ProviderBases(sz, alignment) ==
    {b \in 8..10 : b % alignment = 0 /\ b + sz <= WordMod}

\* posix_memalign(&mut mem, alignment, size): the error number it returns
\* (0 for success) and the block it stores in mem
posix_memalign(alignment, sz) ==
    {[errno |-> e, mem |-> 0] : e \in Errnos}
    \cup {[errno |-> 0, mem |-> b] : b \in ProviderBases(sz, alignment)}

\* mutant: the error number of posix_memalign is not looked at
M_alloc_aligned_alloc_unchecked(sz, alignment) ==
    IF count_ones(alignment) # 1
    THEN {[res |-> "panic", mem |-> 0, err |-> "none", calls |-> FALSE,
           errno |-> 0]}
    ELSE IF sz = 0
    THEN {[res |-> "Err", mem |-> 0, err |-> "ZeroSizeAlloc", calls |-> FALSE,
           errno |-> 0]}
    ELSE {[res |-> "Ok", mem |-> r.mem, err |-> "none", calls |-> TRUE,
           errno |-> r.errno] : r \in posix_memalign(alignment, sz)}

\* alloc::aligned_alloc(size, alignment): the set of its possible outcomes;
\* `calls` says whether posix_memalign was reached and `errno` what it
\* returned
alloc_aligned_alloc(sz, alignment) ==
    IF count_ones(alignment) # 1
    THEN {[res |-> "panic", mem |-> 0, err |-> "none", calls |-> FALSE,
           errno |-> 0]}
    ELSE IF sz = 0
    THEN {[res |-> "Err", mem |-> 0, err |-> "ZeroSizeAlloc", calls |-> FALSE,
           errno |-> 0]}
    ELSE {IF r.errno # 0
          THEN [res |-> "Err", mem |-> 0, err |-> <<"Errno", r.errno>>,
                calls |-> TRUE, errno |-> r.errno]
          ELSE [res |-> "Ok", mem |-> r.mem, err |-> "none",
                calls |-> TRUE, errno |-> 0] :
             r \in posix_memalign(alignment, sz)}

\* the provider after one posix_memalign call with the outcome o
ProviderAfterAlloc(o) ==
    [provider EXCEPT !.allocCalls = @ + 1,
                     !.errno = o.errno,
                     !.blocks = IF o.errno = 0 THEN @ \cup {o.mem} ELSE @]

\* alloc::free(ptr): c_free(ptr)
ProviderAfterFree(ptr) ==
    [provider EXCEPT !.freeLog = Append(@, ptr), !.blocks = @ \ {ptr}]

(* ------------------------------ Arena::new ---------------------------- *)

\* mutant: no special case for size 0
M_ArenaNew_no_zero(sz, alignment) == alloc_aligned_alloc(sz, alignment)

\* the outcomes of Arena::new(size, alignment)
ArenaNew(sz, alignment) ==
    IF sz = 0
    THEN {[res |-> "Ok", mem |-> PlaceholderMem, err |-> "none", calls |-> FALSE,
           errno |-> 0]}
    ELSE alloc_aligned_alloc(sz, alignment)

New(sz, alignment) ==
    /\ st = "init"
    /\ \E o \in ArenaNew(sz, alignment) :
        /\ ctor' = [op |-> "new", size |-> sz, alignment |-> alignment,
                    res |-> o.res, err |-> o.err]
        /\ provider' = IF o.calls THEN ProviderAfterAlloc(o) ELSE provider
        /\ IF o.res = "Ok"
           THEN /\ st' = "live"
                /\ size' = sz
                /\ used' = 0
                /\ mem' = o.mem
                /\ heap' = [a \in o.mem .. (o.mem + sz - 1) |-> Uninit]
           ELSE /\ st' = IF o.res = "panic" THEN "panic" ELSE "err"
                /\ UNCHANGED <<size, used, mem, heap>>
    /\ UNCHANGED <<boxes, ret, garbageDrops>>

(* -------------------------- Arena::aligned_alloc ---------------------- *)

\* mutant: `used` is advanced before the capacity check
M_aligned_alloc_bump_first(m, u, cap, sz, alignment) ==
    LET unaligned_p == Wrap(m + u)
        aligned_p == BitAnd(Wrap(unaligned_p + alignment - 1),
                            BitNot(Wrap(alignment - 1)))
        offset == Wrap(aligned_p - unaligned_p)
    IN  IF Wrap(Wrap(u + sz) + offset) > cap
        THEN [res |-> "None", used |-> Wrap(Wrap(u + sz) + offset)]
        ELSE [res |-> "Some", ptr |-> aligned_p,
              used |-> Wrap(Wrap(u + sz) + offset)]

\* mutant: the padding is left out of the new value of `used`
M_aligned_alloc_no_offset(m, u, cap, sz, alignment) ==
    LET unaligned_p == Wrap(m + u)
        aligned_p == BitAnd(Wrap(unaligned_p + alignment - 1),
                            BitNot(Wrap(alignment - 1)))
        offset == Wrap(aligned_p - unaligned_p)
    IN  IF Wrap(Wrap(u + sz) + offset) > cap
        THEN [res |-> "None", used |-> u]
        ELSE [res |-> "Some", ptr |-> aligned_p, used |-> Wrap(u + sz)]

\* mutant: the padding is left out of the capacity check
M_aligned_alloc_check_no_offset(m, u, cap, sz, alignment) ==
    LET unaligned_p == Wrap(m + u)
        aligned_p == BitAnd(Wrap(unaligned_p + alignment - 1),
                            BitNot(Wrap(alignment - 1)))
        offset == Wrap(aligned_p - unaligned_p)
    IN  IF Wrap(u + sz) > cap
        THEN [res |-> "None", used |-> u]
        ELSE [res |-> "Some", ptr |-> aligned_p,
              used |-> Wrap(Wrap(u + sz) + offset)]

\* mutant: a request that fills the block exactly is refused
M_aligned_alloc_refuses_exact_fit(m, u, cap, sz, alignment) ==
    IF count_ones(alignment) # 1 THEN [res |-> "panic", used |-> u]
    ELSE
      LET unaligned_p == Wrap(m + u)
          aligned_p == BitAnd(Wrap(unaligned_p + alignment - 1),
                              BitNot(Wrap(alignment - 1)))
          offset == Wrap(aligned_p - unaligned_p)
      IN  IF Wrap(Wrap(u + sz) + offset) >= cap
          THEN [res |-> "None", used |-> u]
          ELSE [res |-> "Some", ptr |-> aligned_p,
                used |-> Wrap(Wrap(u + sz) + offset)]

\* Arena::aligned_alloc(size, alignment) on an arena (m, u, cap):
\* the pointer returned, if any, and the new value of `used`.  The sums
\* and the difference are usize operations, taken modulo 2^W.
aligned_alloc(m, u, cap, sz, alignment) ==
    IF count_ones(alignment) # 1 THEN [res |-> "panic", used |-> u]
    ELSE
      LET unaligned_p == Wrap(m + u)
          aligned_p == BitAnd(Wrap(unaligned_p + alignment - 1),
                              BitNot(Wrap(alignment - 1)))
          offset == Wrap(aligned_p - unaligned_p)
      IN  IF Wrap(Wrap(u + sz) + offset) > cap
          THEN [res |-> "None", used |-> u]
          ELSE [res |-> "Some", ptr |-> aligned_p,
                used |-> Wrap(Wrap(u + sz) + offset)]

\* mutant: one byte is reserved whatever the size of T
M_alloc_one_byte(m, u, cap, t) ==
    IF size_of(t) = 0
    THEN [res |-> "Some", ptr |-> align_of(t), used |-> u]
    ELSE aligned_alloc(m, u, cap, 1, align_of(t))

\* mutant: no special case for zero-sized types
M_alloc_no_zst(m, u, cap, t) ==
    aligned_alloc(m, u, cap, size_of(t), align_of(t))

\* Arena::alloc::<T>()
alloc(m, u, cap, t) ==
    IF size_of(t) = 0
    THEN [res |-> "Some", ptr |-> align_of(t), used |-> u]
    ELSE aligned_alloc(m, u, cap, size_of(t), align_of(t))

(* ------------------------------ ArenaBox ------------------------------ *)
(* boxes[i] is the i-th value placed: its type, the pointer its handle    *)
(* holds, the value its owner expects to find there, the number of times  *)
(* drop_in_place ran on it, and who owns it: "owned" (a live ArenaBox),   *)
(* "inner" (an ArenaBox that is a field of another placed value), "raw"   *)
(* (given up by into_raw) or "dropped".                                   *)

Boxes == 1..Len(boxes)

\* the bytes at [p, p + n)
Cells(h, p, n) == [i \in 1..n |-> h[p + i - 1]]

\* the heap after writing `cells` at p
Store(h, p, cells) ==
    [a \in DOMAIN h |->
        IF a \in p .. (p + Len(cells) - 1) THEN cells[a - p + 1] ELSE h[a]]

InBlock(h, p, n) == \A a \in p .. (p + n - 1) : a \in DOMAIN h

\* ArenaBox::deref / Unique::as_ref: the value read through handle i
Deref(i) ==
    Decode(boxes[i].ty, Cells(heap, boxes[i].ptr, size_of(boxes[i].ty)))

\* the node values whose handle is at address p
BoxAt(p) == {i \in Boxes : boxes[i].ptr = p /\ boxes[i].ty = "node"}

\* the placed values that drop_in_place(p as *mut List) runs a destructor
\* on: the node at p and, through its ArenaBox field, the nodes after it
RECURSIVE DropGlue(_, _)
DropGlue(p, fuel) ==
    IF fuel = 0 \/ ~InBlock(heap, p, size_of("node")) THEN {}
    ELSE BoxAt(p) \cup
         (IF heap[p + 1] \in {0, Uninit} THEN {}
          ELSE DropGlue(heap[p + 1], fuel - 1))

\* Drop for ArenaBox: the placed values drop_in_place(self.value) destroys
ArenaBoxDrop(i) ==
    IF needs_drop(boxes[i].ty)
    THEN DropGlue(boxes[i].ptr, Len(boxes))
    ELSE {i}

\* the boxes after the destructors of the values in S have run once more
RunDtors(bs, S) ==
    [i \in 1..Len(bs) |->
        IF i \in S THEN [bs[i] EXCEPT !.dtor = @ + 1] ELSE bs[i]]

SetSt(bs, S, s) ==
    [i \in 1..Len(bs) |-> IF i \in S THEN [bs[i] EXCEPT !.st = s] ELSE bs[i]]

(* ---------------------------- Arena::new_box -------------------------- *)

NodeBoxes == {i \in Boxes : boxes[i].ty = "node"}

\* the values of type t the caller can pass to new_box
Values(t) ==
    IF t = "node"
    THEN {Nil} \cup {Cons(item, boxes[c].ptr) :
                        item \in Items,
                        c \in {j \in NodeBoxes : boxes[j].st = "owned"}}
    ELSE IF size_of(t) = 0 THEN {0}
    ELSE IntVals

\* the handles that are moved into the value v
MovedInto(t, v) ==
    IF t = "node" /\ v.tag = "Cons"
    THEN {j \in NodeBoxes : boxes[j].ptr = v.next /\ boxes[j].st = "owned"}
    ELSE {}

\* `*p = x` first drops the value it finds at p.  For a type without drop
\* glue that does nothing.  For a node it runs drop_in_place on the bytes at
\* p: bytes never written decode to any value at all (Nil, a pointer to a
\* placed node, a pointer to unmapped memory).  Each outcome: whether the
\* bytes dropped were never written, the placed values whose destructor
\* ran, and whether the process faulted.
AssignDrops(p, t) ==
    IF ~needs_drop(t)
    THEN {[garbage |-> FALSE, dropped |-> {}, fault |-> FALSE]}
    ELSE IF heap[p + 1] # Uninit
    THEN {[garbage |-> FALSE, dropped |-> DropGlue(p, Len(boxes)),
           fault |-> FALSE]}
    ELSE {[garbage |-> TRUE, dropped |-> {}, fault |-> b] : b \in BOOLEAN}
         \cup {[garbage |-> TRUE,
                dropped |-> DropGlue(boxes[j].ptr, Len(boxes)),
                fault |-> FALSE] : j \in NodeBoxes}

\* what is remembered of a new_box call: its argument, Ok(handle idx at ptr)
\* or Err(val) ("panic", "fault": it never returned), and the arena it was
\* made on
NewBoxRet(t, v, res, ptr) ==
    [op |-> "new_box", ty |-> t, arg |-> v, res |-> res, ptr |-> ptr,
     val |-> IF res = "Err" THEN v ELSE "moved",
     idx |-> IF res = "Ok" THEN Len(boxes) + 1 ELSE 0,
     usedBefore |-> used, boxesBefore |-> Len(boxes)]

\* Arena::new_box(x) with x = v of type t
NewBox(t, v) ==
    /\ st = "live"
    /\ Len(boxes) < MaxBoxes \/ alloc(mem, used, size, t).res = "None"
    /\ LET r == alloc(mem, used, size, t) IN
        IF r.res = "None"
        THEN /\ ret' = NewBoxRet(t, v, "Err", 0)
             /\ used' = r.used
             /\ UNCHANGED <<st, heap, boxes, garbageDrops>>
        ELSE IF r.res = "panic"
        THEN /\ st' = "panic"
             /\ ret' = NewBoxRet(t, v, "panic", 0)
             /\ UNCHANGED <<used, heap, boxes, garbageDrops>>
        ELSE IF ~InBlock(heap, r.ptr, size_of(t))
        THEN /\ st' = "fault"
             /\ used' = r.used
             /\ ret' = NewBoxRet(t, v, "fault", r.ptr)
             /\ UNCHANGED <<heap, boxes, garbageDrops>>
        ELSE \E o \in AssignDrops(r.ptr, t) :
             /\ used' = r.used
             /\ garbageDrops' =
                    IF o.garbage THEN garbageDrops \cup {r.ptr} ELSE garbageDrops
             /\ IF o.fault
                THEN /\ st' = "fault"
                     /\ boxes' = RunDtors(boxes, o.dropped)
                     /\ ret' = NewBoxRet(t, v, "fault", r.ptr)
                     /\ heap' = heap
                ELSE /\ st' = st
                     /\ heap' = Store(heap, r.ptr, Encode(t, v))
                     /\ boxes' = Append(
                            SetSt(RunDtors(boxes, o.dropped),
                                  MovedInto(t, v), "inner"),
                            [ty |-> t, ptr |-> r.ptr, val |-> v,
                             st |-> "owned", dtor |-> 0])
                     /\ ret' = NewBoxRet(t, v, "Ok", r.ptr)
    /\ UNCHANGED <<ctor, size, mem, provider>>

(* ------------------------- operations on handles ---------------------- *)
(* A handle can be used for as long as it exists in a running process;    *)
(* nothing in deref, deref_mut or drop looks at the arena.                *)

\* `*b = v` through DerefMut, for the integer types
Write(i, v) ==
    /\ st \in {"live", "torn"}
    /\ boxes[i].st = "owned"
    /\ boxes[i].ty \in {"u8", "u32"}
    /\ heap' = Store(heap, boxes[i].ptr, Encode(boxes[i].ty, v))
    /\ boxes' = [boxes EXCEPT ![i].val = v]
    /\ UNCHANGED <<st, ctor, size, used, mem, ret, provider, garbageDrops>>

\* an ArenaBox goes out of scope
DropBox(i) ==
    /\ st \in {"live", "torn"}
    /\ boxes[i].st = "owned"
    /\ boxes' = SetSt(RunDtors(boxes, ArenaBoxDrop(i)),
                      ArenaBoxDrop(i) \cup {i}, "dropped")
    /\ UNCHANGED <<st, ctor, size, used, mem, heap, ret, provider, garbageDrops>>

\* ArenaBox::into_raw(b)
IntoRaw(i) ==
    /\ st = "live"
    /\ boxes[i].st = "owned"
    /\ boxes' = [boxes EXCEPT ![i].st = "raw"]
    /\ UNCHANGED <<st, ctor, size, used, mem, heap, ret, provider, garbageDrops>>

\* ArenaBox::from_raw(ptr) on the pointer into_raw returned.  The function
\* is unsafe: its caller answers for the pointer being valid, so it is
\* called once per into_raw and while the arena is alive.
FromRaw(i) ==
    /\ st = "live"
    /\ boxes[i].st = "raw"
    /\ boxes' = [boxes EXCEPT ![i].st = "owned"]
    /\ UNCHANGED <<st, ctor, size, used, mem, heap, ret, provider, garbageDrops>>

(* ------------------------------ Drop for Arena ------------------------ *)

\* mutant: the handles do not borrow the arena
M_DropArena_unborrowed ==
    /\ st = "live"
    /\ provider' = ProviderAfterFree(mem)
    /\ st' \in IF mem \in provider.blocks THEN {"torn"} ELSE {"torn", "fault"}
    /\ UNCHANGED <<ctor, size, used, mem, heap, boxes, ret, garbageDrops>>

\* the arena goes out of scope; the borrow checker lets that happen only
\* when no ArenaBox<'a, T> borrowed from it is alive.  free() of a pointer
\* the provider never returned is undefined: the process may fault or go on.
DropArena ==
    /\ st = "live"
    /\ \A i \in Boxes : boxes[i].st # "owned"
    /\ provider' = ProviderAfterFree(mem)
    /\ st' \in IF mem \in provider.blocks THEN {"torn"} ELSE {"torn", "fault"}
    /\ UNCHANGED <<ctor, size, used, mem, heap, boxes, ret, garbageDrops>>

(* ----------------------------- specification -------------------------- *)

Next ==
    \/ \E sz \in 0..MaxSize, alignment \in 0..MaxAlign : New(sz, alignment)
    \/ \E t \in TypeNames : \E v \in Values(t) : NewBox(t, v)
    \/ \E i \in Boxes, v \in IntVals : Write(i, v)
    \/ \E i \in Boxes : DropBox(i)
    \/ \E i \in Boxes : IntoRaw(i)
    \/ \E i \in Boxes : FromRaw(i)
    \/ DropArena

Spec == Init /\ [][Next]_vars

(* ------------------------------- claims ------------------------------- *)

IsPowerOfTwo(n) == \E k \in 0..W : n = 2 ^ k

\* an arena value exists (Arena::new returned Ok)
ArenaMade == st \in {"live", "torn", "fault"} /\ ctor.op = "new" /\ ctor.res = "Ok"

\* some address a >= m + u with a % alignment = 0 leaves room for sz bytes
\* before the end m + cap of the block
Fits(m, u, cap, sz, alignment) ==
    \E a \in (m + u) .. (m + cap - sz) : a % alignment = 0

Placed == {i \in Boxes : size_of(boxes[i].ty) > 0}
Range(i) == boxes[i].ptr .. (boxes[i].ptr + size_of(boxes[i].ty) - 1)

\* C1: when the remaining capacity cannot hold a value of a non-zero-sized
\* type, new_box returns Err with the value it was given, and the call
\* changes nothing: `used`, the bytes of the block, the values placed and
\* their destructor counts are what they were before the call.
C1_ExhaustionHandsBack ==
    [][(/\ ret' # ret
        /\ ret'.op = "new_box"
        /\ size_of(ret'.ty) > 0
        /\ ~Fits(mem, used, size, size_of(ret'.ty), align_of(ret'.ty)))
       => (/\ ret'.res = "Err"
           /\ ret'.val = ret'.arg
           /\ used' = used
           /\ UNCHANGED <<st, heap, boxes, garbageDrops, size, mem>>)]_vars

C1_Witness ==
    /\ ret.op = "new_box" /\ ret.res = "Err" /\ ret.ty = "node"
    /\ size > 0 /\ used > 0 /\ used < size
    /\ ~Fits(mem, ret.usedBefore, size, size_of(ret.ty), align_of(ret.ty))

\* C2: the byte ranges of the non-zero-sized values placed are pairwise
\* disjoint, lie inside [mem, mem + size), and start at a multiple of the
\* alignment of their type.
C2_DisjointAlignedInside ==
    /\ \A i \in Placed :
        /\ boxes[i].ptr % align_of(boxes[i].ty) = 0
        /\ mem <= boxes[i].ptr
        /\ boxes[i].ptr + size_of(boxes[i].ty) <= mem + size
    /\ \A i, j \in Placed : i # j => Range(i) \cap Range(j) = {}

C2_Witness ==
    /\ Cardinality(Placed) = 2
    /\ \E i, j \in Placed :
        /\ i < j
        /\ boxes[i].ty = "u8" /\ boxes[j].ty = "node"
        /\ boxes[j].ptr > boxes[i].ptr + 1

\* C3: a live handle reads the value placed through it or last written
\* through it, whatever was placed or written through other handles.
C3_DerefYieldsValue ==
    \A i \in Boxes :
        boxes[i].st \in {"owned", "inner"} => Deref(i) = boxes[i].val

C3_Witness ==
    /\ Len(boxes) = 2
    /\ boxes[1].st = "owned" /\ boxes[2].st = "owned"
    /\ boxes[1].ty = "u8" /\ boxes[2].ty = "u8"
    /\ ret.op = "new_box" /\ ret.idx = 2 /\ ret.arg = 0
    /\ boxes[1].val = 1 /\ boxes[2].val = 1
    /\ Deref(1) = 1 /\ Deref(2) = 1

\* C4: the destructor of a placed value has run exactly once when its
\* handle was dropped, and not at all when its handle was given up by
\* into_raw and never wrapped again.
C4_DestructorOnceOrNever ==
    \A i \in Boxes :
        /\ boxes[i].st = "dropped" => boxes[i].dtor = 1
        /\ boxes[i].st = "raw" => boxes[i].dtor = 0

\* C5: 0 <= used <= size in every state of an arena, and size is the size
\* given to Arena::new.
C5_UsedWithinCapacity ==
    ArenaMade => (0 <= used /\ used <= size /\ size = ctor.size)

C5_Witness ==
    /\ ArenaMade
    /\ size > 0 /\ used = size
    /\ ret.op = "new_box" /\ ret.res = "Err"
    /\ \E i \in Boxes : size_of(boxes[i].ty) = 0
    /\ \E i \in Boxes : size_of(boxes[i].ty) > 0

\* C6: new_box of a value of a zero-sized type returns Ok and leaves `used`
\* as it was, in every arena; the pointer of the handle is not null and is
\* a multiple of the alignment of the type.
C6_ZeroSizedAlwaysPlaced ==
    (ret.op = "new_box" /\ size_of(ret.ty) = 0)
    => (/\ ret.res = "Ok"
        /\ used = ret.usedBefore
        /\ ret.ptr # 0
        /\ ret.ptr % align_of(ret.ty) = 0
        /\ boxes[ret.idx].ptr = ret.ptr)

C6_Witness ==
    /\ ret.op = "new_box" /\ ret.res = "Ok" /\ ret.ty = "zst4"
    /\ size > 0 /\ used = size /\ (mem + used) % align_of("zst4") # 0

\* C7: tearing the arena down calls the provider's release once, with the
\* pointer the provider returned, when size > 0, and never when the arena
\* was constructed with size 0.
C7_ReleaseOnceUnlessEmpty ==
    /\ (ctor.op = "new" /\ ctor.size = 0) => provider.freeLog = <<>>
    /\ (st = "torn" /\ ctor.size > 0) => provider.freeLog = <<mem>>

\* C8: Arena::new panics whenever the alignment is not a power of two,
\* whatever the size.
C8_BadAlignmentPanics ==
    (ctor.op = "new" /\ ~IsPowerOfTwo(ctor.alignment)) => ctor.res = "panic"

\* C9: Arena::new with size 0 returns Ok without calling the provider, with
\* used = 0 and the non-null placeholder as base, and every new_box of a
\* value of a non-zero-sized type on that arena returns Err with the value.
C9_EmptyArena ==
    (ctor.op = "new" /\ ctor.size = 0)
    => (/\ ctor.res = "Ok"
        /\ provider.allocCalls = 0
        /\ used = 0
        /\ mem # 0
        /\ (ret.op = "new_box" /\ size_of(ret.ty) > 0)
              => (ret.res = "Err" /\ ret.val = ret.arg))

C9_Witness ==
    /\ ctor.op = "new" /\ ctor.size = 0 /\ st = "live"
    /\ ret.op = "new_box" /\ ret.ty = "u8" /\ ret.res = "Err"

\* C10: no destructor is ever run on bytes of a reserved range that were
\* never written: a placement writes the value without dropping what the
\* range held before.
C10_NoDropOfUnwritten == garbageDrops = {}


\* C11: between into_raw and from_raw the value stays where it is and no
\* destructor runs on it, and the handle from_raw makes from the pointer
\* reads the same value: in every step taken while the pointer of value i
\* is raw, its address, its value and its destructor count are unchanged.
C11_RoundTripKeepsValue ==
    [][\A i \in Boxes :
          boxes[i].st = "raw" =>
            /\ boxes'[i].ptr = boxes[i].ptr
            /\ boxes'[i].dtor = boxes[i].dtor
            /\ boxes[i].dtor = 0
            /\ boxes'[i].st \in {"raw", "owned"}
            /\ boxes'[i].st = "owned" => Deref(i)' = boxes[i].val]_vars


\* C12: when size > 0 and the provider rejects the request with the error
\* number e, Arena::new returns Err(AllocError::Errno(e)), no arena exists
\* and the provider's release is never called.
C12_ProviderFailurePropagates ==
    (ctor.op = "new" /\ ctor.size > 0 /\ provider.errno # 0)
    => (/\ ctor.res = "Err"
        /\ ctor.err = <<"Errno", provider.errno>>
        /\ st = "err"
        /\ provider.allocCalls = 1
        /\ provider.blocks = {}
        /\ provider.freeLog = <<>>
        /\ boxes = <<>> /\ ret = NoCall)

C12_Witness ==
    /\ ctor.op = "new" /\ ctor.size > 0
    /\ provider.errno = 12
    /\ ctor.res = "Err"


\* the nodes that following the handles stored in the block reaches from
\* the node at address p, in the order they are reached
RECURSIVE Traverse(_, _)
Traverse(p, fuel) ==
    IF fuel = 0 \/ ~InBlock(heap, p, size_of("node")) \/ BoxAt(p) = {}
    THEN <<>>
    ELSE <<CHOOSE i \in BoxAt(p) : TRUE>> \o
         (IF heap[p + 1] \in {0, Uninit} THEN <<>>
          ELSE Traverse(heap[p + 1], fuel - 1))

\* the chain that was built: the node i and, if it was placed as a Cons, the
\* chain of the node whose handle was moved into it
RECURSIVE PlacedChain(_, _)
PlacedChain(i, fuel) ==
    IF fuel = 0 THEN <<>>
    ELSE <<i>> \o
         (IF boxes[i].val.tag = "Nil" \/ BoxAt(boxes[i].val.next) = {} THEN <<>>
          ELSE PlacedChain(CHOOSE j \in BoxAt(boxes[i].val.next) : TRUE,
                           fuel - 1))

\* C13: every placement of a list node that the capacity allows completes
\* without a fault, and the traversal from the newest node reaches every
\* node of its chain, newest first.  The declaration order of Nil and Cons
\* only decides which variant the bytes found at the reserved range are
\* taken for, and the model lets them be taken for either.
C13_ChainPlacedAndTraversed ==
    (ret.op = "new_box" /\ ret.ty = "node" /\ ret.res # "Err")
    => (/\ ret.res = "Ok"
        /\ Traverse(ret.ptr, Len(boxes)) = PlacedChain(ret.idx, Len(boxes))
        /\ \A k \in 1..(Len(Traverse(ret.ptr, Len(boxes))) - 1) :
              Traverse(ret.ptr, Len(boxes))[k]
                > Traverse(ret.ptr, Len(boxes))[k + 1])


\* C14: once the arena has been torn down no handle made by it is left to
\* read through, and no step writes through a handle or drops one: the
\* bytes of the block and every placed value stay as the release found them.
C14_NoHandleUseAfterTeardown ==
    [][provider.freeLog # <<>> =>
          /\ \A i \in Boxes : boxes[i].st # "owned"
          /\ heap' = heap
          /\ boxes' = boxes]_vars

C14_Witness ==
    /\ st = "torn"
    /\ \E i \in Boxes : boxes[i].ty = "u8" /\ boxes[i].st = "dropped"
    /\ \E i \in Boxes : boxes[i].st = "raw"


\* the least k >= 0 with x + k a multiple of a: round_up(x, a) - x
Padding(x, a) == CHOOSE k \in 0..(a - 1) : (x + k) % a = 0

\* what C15 says of a new_box call c of a non-zero-sized type, made on the
\* arena (m, cap) and leaving the cursor at u
PlacementAsClaimed(c, m, cap, u) ==
    LET s == size_of(c.ty)
        padding == Padding(m + c.usedBefore, align_of(c.ty))
    IN  /\ (c.res # "Err") <=> (c.usedBefore + padding + s <= cap)
        /\ c.res # "Err" =>
              /\ c.ptr = m + c.usedBefore + padding
              /\ u = c.usedBefore + padding + s
        /\ c.res = "Err" => u = c.usedBefore

\* C15: for a non-zero-sized type T of size s and alignment a, with
\* padding = round_up(base + used, a) - (base + used), the range for the
\* value is reserved if and only if used + padding + s <= capacity (an exact
\* fit is accepted); it then starts at base + used + padding and the new used
\* is the old used + padding + s; and no step makes used smaller.  (What the
\* write into the reserved range does is the matter of C10.)
C15_PaddingAndFit ==
    [][/\ used' >= used
       /\ (ret'.op = "new_box" /\ size_of(ret'.ty) > 0)
             => PlacementAsClaimed(ret', mem', size', used')]_vars

C15_Witness ==
    /\ ret.op = "new_box" /\ ret.res = "Ok" /\ size_of(ret.ty) > 0
    /\ Padding(mem + ret.usedBefore, align_of(ret.ty)) > 0
    /\ used = size
    /\ ret.usedBefore > 0


(* ----------------- the arena anywhere in the address space ------------ *)
(* The same arena on a block that the provider places anywhere in the     *)
(* address space of 2^W bytes and that may take more than half of it, and *)
(* placements of plain values of every layout a type can have.  `+` on    *)
(* usize panics on overflow when the crate is built with overflow checks  *)
(* and wraps when it is built without.                                    *)

\* the sizes of the blocks asked for
WrapSizes == {1, MaxSize, 2 ^ (W - 1) + MaxSize}

\* posix_memalign may return any block of the address space whose end,
\* and the address one past it, can be represented; the blocks taken are
\* the lowest one of the provider and those that end within MaxAlign bytes
\* of the top of the address space
AnyBases(sz, alignment) ==
    {b \in 1..(WordMod - 1) :
        /\ b % alignment = 0 /\ b + sz < WordMod
        /\ b = 8 \/ b + sz + MaxAlign > WordMod}

\* the sizes of the values placed
LayoutSizes == {MaxSize, 2 ^ (W - 1) - MaxSize}

\* (size_of::<T>(), align_of::<T>()) of the non-zero-sized types T: the
\* alignment is a power of two, the size a multiple of it and at most
\* isize::MAX
Layouts ==
    {l \in LayoutSizes \X (1..MaxAlign) :
        IsPowerOfTwo(l[2]) /\ l[1] % l[2] = 0 /\ l[1] < 2 ^ (W - 1)}

\* Arena::new(sz, alignment) returning Ok on the block at b
NewAnywhere(sz, alignment, b) ==
    /\ st = "init"
    /\ sz > 0 /\ count_ones(alignment) = 1
    /\ b \in AnyBases(sz, alignment)
    /\ st' = "live"
    /\ ctor' = [op |-> "new", size |-> sz, alignment |-> alignment,
                res |-> "Ok", err |-> "none"]
    /\ size' = sz /\ used' = 0 /\ mem' = b
    /\ heap' = [a \in b..(b + sz - 1) |-> Uninit]
    /\ provider' = [provider EXCEPT !.allocCalls = @ + 1,
                                    !.blocks = @ \cup {b}]
    /\ UNCHANGED <<boxes, ret, garbageDrops>>

\* whether one of the additions of Arena::aligned_alloc exceeds usize::MAX
aligned_alloc_overflows(m, u, sz, alignment) ==
    LET unaligned_p == Wrap(m + u)
        aligned_p == BitAnd(Wrap(unaligned_p + alignment - 1),
                            BitNot(Wrap(alignment - 1)))
        offset == Wrap(aligned_p - unaligned_p)
    IN  \/ m + u >= WordMod
        \/ unaligned_p + alignment - 1 >= WordMod
        \/ u + sz >= WordMod
        \/ Wrap(u + sz) + offset >= WordMod

\* what is remembered of the placement of a plain value of layout (sz,
\* alignment)
LayoutRet(sz, alignment, res, ptr, wrapped) ==
    [op |-> "new_box", size |-> sz, alignment |-> alignment, res |-> res,
     ptr |-> ptr, usedBefore |-> used, wrapped |-> wrapped]

\* Arena::new_box(x) for a value x without drop glue of a type of size sz
\* and the given alignment, the handle being given up at once.  A write
\* that leaves the block is undefined: the process may fault or go on.
NewBoxOfLayout(sz, alignment) ==
    /\ st = "live"
    /\ LET r == aligned_alloc(mem, used, size, sz, alignment)
           w == aligned_alloc_overflows(mem, used, sz, alignment)
       IN  \/ /\ w
              /\ st' = "panic"
              /\ ret' = LayoutRet(sz, alignment, "panic", 0, w)
              /\ UNCHANGED <<used, heap>>
           \/ /\ r.res = "None"
              /\ ret' = LayoutRet(sz, alignment, "Err", 0, w)
              /\ UNCHANGED <<st, used, heap>>
           \/ /\ r.res = "Some"
              /\ used' = r.used
              /\ heap' = Store(heap, r.ptr, [i \in 1..sz |-> 0])
              /\ ret' = LayoutRet(sz, alignment, "Ok", r.ptr, w)
              /\ st' \in IF InBlock(heap, r.ptr, sz)
                         THEN {st} ELSE {st, "fault"}
    /\ UNCHANGED <<ctor, size, mem, boxes, provider, garbageDrops>>

NextWrap ==
    \/ \E sz \in WrapSizes, alignment \in 1..MaxAlign :
          \E b \in AnyBases(sz, alignment) : NewAnywhere(sz, alignment, b)
    \/ \E l \in Layouts : NewBoxOfLayout(l[1], l[2])
    \/ DropArena

SpecWrap == Init /\ [][NextWrap]_vars

\* C16: the additions of Arena::aligned_alloc never exceed usize::MAX, and
\* a value is placed only where it fits: at an aligned address at or after
\* base + used with size bytes left before the end of the block.
C16_SumsDoNotWrap ==
    (ret.op = "new_box")
    => (/\ ~ret.wrapped
        /\ ret.res = "Ok" =>
              Fits(mem, ret.usedBefore, size, ret.size, ret.alignment))

====
